---- MODULE Spec2Model ----
(***************************************************************************)
(* Model of the financial-archiver web application: the document planner   *)
(* and concurrent downloader ScreenerUnifiedFetcher, the process-wide      *)
(* log_queue and the /extract event stream, in its two revisions           *)
(* src/app.py ("app") and src/cloud_ready_app.py ("cloud").                *)
(*                                                                         *)
(* Text is modelled as a sequence of tokens, a token being a maximal run   *)
(* of word characters, so that a regular expression of the form \bX\b      *)
(* matches exactly when some token is X.                                   *)
(***************************************************************************)
EXTENDS Integers, Sequences, FiniteSets, TLC

\* ---------------------------------------------------------------- bounds

\* Longest page, in page items (list entries and anchors), of SpecPlan.
MaxItems == 2
\* Number of /extract requests the model follows.
NumReq == 2
\* Longest plan of SpecPool, in tasks.
MaxPool == 4
\* Number of /download requests the model follows.
NumDl == 2
\* Latest reading of the clock of SpecTime, in ticks.
MaxTime == 2
\* Longest text of a list entry of SpecMeta, in tokens.
MaxText == 2

\* ------------------------------------------------------ program constants

MAX_WORKERS == 3
\* len(r.content) > 1000 in download_file.
MinBody == 1000
\* The defaults of /extract's start_year and end_year.
DefaultStart == 2015
DefaultEnd == 2025

Variants == {"app", "cloud"}
Req == 1..NumReq

\* ------------------------------------------------------------------ text

W(s) == [w |-> s, n |-> 0]
N(k) == [w |-> "#", n |-> k]

\* The year used when no 20xx token is found.
Unknown_Year == W("Unknown_Year")

\* str.lower() on the words of the model's vocabulary.
Lower(s) ==
    CASE s = "Transcript" -> "transcript"
      [] s = "Transcripts" -> "transcripts"
      [] s = "PPT" -> "ppt"
      [] s = "Mar" -> "mar"
      [] s = "Jan" -> "jan"
      [] s = "Notes" -> "notes"
      [] OTHER -> s

month_list == <<"jan", "feb", "mar", "apr", "may", "jun",
                "jul", "aug", "sep", "oct", "nov", "dec">>

\* str.capitalize() on the entries of month_list.
Capitalize(m) ==
    CASE m = "jan" -> "Jan" [] m = "feb" -> "Feb" [] m = "mar" -> "Mar"
      [] m = "apr" -> "Apr" [] m = "may" -> "May" [] m = "jun" -> "Jun"
      [] m = "jul" -> "Jul" [] m = "aug" -> "Aug" [] m = "sep" -> "Sep"
      [] m = "oct" -> "Oct" [] m = "nov" -> "Nov" [] m = "dec" -> "Dec"
      [] OTHER -> m

\* A token matches \b(20\d{2})\b: four digits, the first two being 20.
YearToken(t) == t.w = "#" /\ t.n >= 2000 /\ t.n <= 2099

\* re.search / re.findall(...)[0]: the first 20xx token of the text, in order.
RECURSIVE FirstYearFrom(_, _)
FirstYearFrom(text, i) ==
    IF i > Len(text) THEN Unknown_Year
    ELSE IF YearToken(text[i]) THEN text[i]
    ELSE FirstYearFrom(text, i + 1)

FirstYear(text) == FirstYearFrom(text, 1)

\* re.search(rf'\b{m}\b', text, re.I)
MonthOccurs(m, text) == \E i \in 1..Len(text) : Lower(text[i].w) = m

\* The loop over month_list: the first entry of month_list found in the text.
RECURSIVE MonthFrom(_, _)
MonthFrom(text, k) ==
    IF k > Len(month_list) THEN "General"
    ELSE IF MonthOccurs(month_list[k], text) THEN Capitalize(month_list[k])
    ELSE MonthFrom(text, k + 1)

\* int(year)
YearInt(year) == year.n

\* ------------------------------------------------------------- the page

\* A link target: abs is href.startswith('http'), cons is "consolidated" in
\* href, id tells targets apart, toks are the tokens of the string.
Href(abs, cons, id, toks) == [abs |-> abs, cons |-> cons, id |-> id, toks |-> toks]
NoHref == Href(FALSE, FALSE, 0, <<>>)

\* A page item: a list entry of the annual-reports section (sect = "ar") or an
\* anchor elsewhere; link says whether it holds an <a href>, row whether the
\* anchor sits in an <li>; ctx is the text of the <li> around the anchor and
\* text the anchor's own text.
Item(sect, link, row, ctx, text, href) ==
    [sect |-> sect, link |-> link, row |-> row, ctx |-> ctx, text |-> text, href |-> href]

\* li.get_text(" ", strip=True)
RowText(it) == it.ctx \o it.text

\* The entries of the annual-reports section the pages are made of: no year,
\* the first year of the range, a year past it, and an entry with no link.
ReportItems ==
    { Item("ar", TRUE, TRUE, c, <<W("Notes")>>, Href(FALSE, FALSE, 1, <<>>)) :
        c \in { <<>>, <<N(DefaultStart)>>, <<N(DefaultEnd + 1)>> } }
    \cup { Item("ar", FALSE, TRUE, <<N(DefaultStart)>>, <<>>, NoHref) }

\* The concall anchors: a transcript with no year, with a year before the
\* range, and with month and year under two targets; a presentation under a
\* target of its own and one under the first transcript's target.
ConcallItems ==
    { Item("other", TRUE, TRUE, c, <<W("Transcript")>>, Href(TRUE, FALSE, 1, <<>>)) :
        c \in { <<>>, <<N(DefaultStart - 1)>>, <<W("Mar"), N(DefaultStart)>> } }
    \cup { Item("other", TRUE, TRUE, <<W("Mar"), N(DefaultStart)>>, <<W("Transcript")>>,
                Href(TRUE, FALSE, 2, <<>>)),
           Item("other", TRUE, TRUE, <<W("Mar"), N(DefaultStart)>>, <<W("PPT")>>,
                Href(TRUE, FALSE, 3, <<>>)),
           Item("other", TRUE, TRUE, <<W("Mar"), N(DefaultStart)>>, <<W("PPT")>>,
                Href(TRUE, FALSE, 1, <<>>)) }

\* Anchors outside any <li>, with the year in the link target only: a
\* "consolidated" target, a relative target, and an absolute one.
NoiseItems ==
    { Item("other", TRUE, FALSE, <<>>, <<W("PPT")>>, Href(TRUE, TRUE, 4, <<N(DefaultStart)>>)),
      Item("other", TRUE, FALSE, <<>>, <<W("Transcript")>>, Href(FALSE, FALSE, 5, <<N(DefaultStart)>>)),
      Item("other", TRUE, FALSE, <<>>, <<W("Transcript")>>, Href(TRUE, FALSE, 6, <<N(DefaultStart)>>)) }

Items == ReportItems \cup ConcallItems \cup NoiseItems

RECURSIVE SeqsUpTo(_, _)
SeqsUpTo(S, n) ==
    IF n = 0 THEN { <<>> }
    ELSE LET shorter == SeqsUpTo(S, n - 1)
         IN shorter \cup { Append(s, x) : s \in { t \in shorter : Len(t) = n - 1 }, x \in S }

Pages == SeqsUpTo(Items, MaxItems)

\* ------------------------------------------------------ extract_metadata

\* search_text: the enclosing <li>'s text, or the element's own.
SearchText(it) == IF it.row THEN RowText(it) ELSE it.text

\* combined_text; cloud_ready_app.py searches search_text alone.
CombinedText(v, it) == IF v = "app" THEN SearchText(it) \o it.href.toks ELSE SearchText(it)

extract_metadata(v, it) ==
    [year |-> FirstYear(CombinedText(v, it)), month |-> MonthFrom(CombinedText(v, it), 1)]

\* ---------------------------------------------------------- the planner

\* A destination path under the company root. sfx = 0 is the unsuffixed name.
\* The two revisions lay the directories out differently (cat/year, year/cat),
\* the same way for every path of a revision.
Path(cat, year, month, sfx) == [cat |-> cat, year |-> year, month |-> month, sfx |-> sfx]

Task(cat, year, month, url, path, src) ==
    [cat |-> cat, year |-> year, month |-> month, url |-> url, path |-> path, src |-> src]

\* The range test with its upper bound left out.
OutOfRangeNoUpper(year, start_year, end_year) == YearInt(year) < start_year

\* year_int < start_year or year_int > end_year
OutOfRange(year, start_year, end_year) ==
    YearInt(year) < start_year \/ YearInt(year) > end_year

\* The annual-report pass keeps an entry of this year.
ReportYearKept(v, year, start_year, end_year) ==
    IF v = "app"
    THEN year # Unknown_Year /\ ~OutOfRange(year, start_year, end_year)
    ELSE ~(year # Unknown_Year /\ OutOfRange(year, start_year, end_year))

\* The annual-reports pass run whatever is selected.
AnnualSelectedAlways(v, sel) == TRUE

\* 'all' in selected_types or 'annual_reports' in selected_types; the pass is
\* not conditional in cloud_ready_app.py.
AnnualSelected(v, sel) == v = "cloud" \/ "all" \in sel \/ "annual_reports" \in sel

RECURSIVE AnnualPass(_, _, _, _, _, _)
AnnualPass(v, pg, start_year, end_year, i, acc) ==
    IF i > Len(pg) THEN acc
    ELSE LET li == pg[i]
             year == FirstYear(RowText(li))
             keep == /\ li.sect = "ar"
                     /\ li.link
                     /\ ReportYearKept(v, year, start_year, end_year)
             task == Task("Annual Report", year, "", li.href,
                          Path("Annual_Reports", year, "", 0), i)
         IN AnnualPass(v, pg, start_year, end_year, i + 1,
                       IF keep THEN Append(acc, task) ELSE acc)

\* link_text = link.get_text(strip=True).lower()
TextHasTranscript(it) ==
    \E k \in 1..Len(it.text) : Lower(it.text[k].w) \in {"transcript", "transcripts"}
TextIsPpt(it) == Len(it.text) = 1 /\ Lower(it.text[1].w) = "ppt"

Category(v, it, sel) ==
    IF TextHasTranscript(it) /\ (v = "cloud" \/ "all" \in sel \/ "transcript" \in sel)
    THEN "Transcript"
    ELSE IF TextIsPpt(it) /\ (v = "cloud" \/ "all" \in sel \/ "ppt" \in sel)
    THEN "PPT"
    ELSE "None"

ConcallSelected(v, sel) ==
    v = "cloud" \/ "all" \in sel \/ "ppt" \in sel \/ "transcript" \in sel

\* The concall pass keeps an anchor of this year.
ConcallYearKept(v, year, start_year, end_year) ==
    IF v = "app"
    THEN year # Unknown_Year /\ ~OutOfRange(year, start_year, end_year)
    ELSE ~(year # Unknown_Year /\ OutOfRange(year, start_year, end_year))

\* file_path.exists()
Exists(path, disk) == path \in disk

\* counter = 1; while file_path.exists(): file_path = ..._{counter}.pdf; counter += 1
RECURSIVE FreePath(_, _, _, _, _)
FreePath(cat, year, month, sfx, disk) ==
    IF Exists(Path(cat, year, month, sfx), disk)
    THEN FreePath(cat, year, month, sfx + 1, disk)
    ELSE Path(cat, year, month, sfx)

\* The set of planned URLs never added to.
SeenAfterForgets(seen_urls, href, keep) == seen_urls

\* seen_urls.add(href), for an anchor that is kept.
SeenAfter(seen_urls, href, keep) == IF keep THEN seen_urls \cup {href} ELSE seen_urls

RECURSIVE ConcallPass(_, _, _, _, _, _, _, _, _)
ConcallPass(v, pg, start_year, end_year, sel, disk, i, seen_urls, acc) ==
    IF i > Len(pg) THEN acc
    ELSE LET link == pg[i]
             href == link.href
             skip == ~link.link \/ href \in seen_urls \/ ~href.abs \/ href.cons
             cat == Category(v, link, sel)
             md == extract_metadata(v, link)
             keep == /\ ~skip
                     /\ cat # "None"
                     /\ ConcallYearKept(v, md.year, start_year, end_year)
             task == Task(cat, md.year, md.month, href,
                          FreePath(cat, md.year, md.month, 0, disk), i)
         IN ConcallPass(v, pg, start_year, end_year, sel, disk, i + 1,
                        SeenAfter(seen_urls, href, keep),
                        IF keep THEN Append(acc, task) ELSE acc)

\* download_tasks of process_company for a fetched page.
PlanTasks(v, pg, start_year, end_year, sel, disk) ==
    LET reports == IF AnnualSelected(v, sel)
                   THEN AnnualPass(v, pg, start_year, end_year, 1, <<>>)
                   ELSE <<>>
    IN IF ConcallSelected(v, sel)
       THEN ConcallPass(v, pg, start_year, end_year, sel, disk, 1, {}, reports)
       ELSE reports

\* --------------------------------------------------------------- events

\* One line of log_queue. by is the run that put it (not part of the line).
Ev(t, m, c, n, root, by) ==
    [t |-> t, m |-> m, c |-> c, n |-> n, eta |-> 0, root |-> root, by |-> by]

StatusFetching(r) == Ev("STATUS", "fetching", 0, 0, "", r)
StatusNoFiles(r) == Ev("STATUS", "nofiles", 0, 0, "", r)
ErrorEvent(r) == Ev("ERROR", "connection", 0, 0, "", r)
\* TOTAL with a count one too large.
TotalEventOneMore(r, n) == Ev("TOTAL", "", 0, n + 1, "", r)
TotalEvent(r, n) == Ev("TOTAL", "", 0, n, "", r)
\* PROGRESS|completed|total|eta_seconds
ProgressEvent(r, c, n, eta) == [Ev("PROGRESS", "", c, n, "", r) EXCEPT !.eta = eta]
\* COMPLETE|0|0| in app.py, COMPLETE|0|0 (three parts) in cloud_ready_app.py.
EmptyCompleteEvent(v, r) == Ev("COMPLETE", "", 0, 0, IF v = "app" THEN "" ELSE "absent", r)
CompleteEvent(r, c, n) == Ev("COMPLETE", "", c, n, "company_root", r)

\* ---------------------------------------------------------------- state

VARIABLES
    variant,           \* which revision runs
    page,              \* the company's page, as parsed
    start_year,        \* /extract's arguments
    end_year,
    selected_types,
    disk,              \* the paths that exist under the company root
    log_queue,         \* the process-wide queue
    pc,                \* where each request's extraction thread is
    download_tasks,    \* the plan of each run
    future,            \* the state of each task's future
    response,          \* what a worker's download request came to
    attempts,          \* how many times download_file was called for a task
    referer,           \* the Referer header of a task's download request
    completed,         \* the dispatcher's counter
    downloaded_files,  \* the fetcher's list
    emitted,           \* every line a run has put, in order
    result,            \* what process_company returned
    now,               \* time.time()
    start_time,        \* the dispatcher's start_time
    gen,               \* where each request's generate() is
    stream,            \* the lines each caller has been sent
    session_id,        \* app.py: the session id /extract made for each request
    download_sessions, \* app.py: the registered sessions, in the order of the dict
    dl,                \* the /download requests
    current_download_path  \* cloud_ready_app.py: the global path

vars == <<variant, page, start_year, end_year, selected_types, disk, log_queue, pc,
          download_tasks, future, response, attempts, referer, completed,
          downloaded_files, emitted, result, now, start_time, gen, stream, session_id,
          download_sessions, dl, current_download_path>>

env == <<variant, page, start_year, end_year, selected_types>>

SelectedTypeSets == { {"all"} }

\* request.args.get('session') with no such argument; the session id of a
\* request that has not arrived.
NoSession == <<>>

\* The /download requests the model follows.
Dl == 1..NumDl

\* A /download request: where its handler is, the session asked for, the
\* sessions_to_delete still to be deleted, how many it has deleted, the
\* status of its response (0 while there is none) and the run whose archive
\* it was sent.
Download(at, session, todo, deleted, status, served) ==
    [at |-> at, session |-> session, todo |-> todo, deleted |-> deleted,
     status |-> status, served |-> served]
NoDownload == Download("idle", NoSession, <<>>, 0, 0, 0)

\* A value of current_download_path; by is the run whose COMPLETE carried it
\* (not part of the value).
DownloadPath(root, by) == [root |-> root, by |-> by]
\* current_download_path = None
NoDownloadPath == DownloadPath("None", 0)

\* A worker that holds no response.
NoResponse == [raised |-> FALSE, status |-> 0, size |-> 0]

\* The state when the first request arrives, for a page of pages and a
\* download_type of types.
InitOf(pages, types) ==
    /\ variant \in Variants
    /\ page \in pages
    /\ start_year = DefaultStart
    /\ end_year = DefaultEnd
    /\ selected_types \in types
    /\ disk = {}
    /\ log_queue = <<>>
    /\ pc = [r \in Req |-> "idle"]
    /\ download_tasks = [r \in Req |-> <<>>]
    /\ future = [r \in Req |-> <<>>]
    /\ response = [r \in Req |-> <<>>]
    /\ attempts = [r \in Req |-> <<>>]
    /\ referer = [r \in Req |-> <<>>]
    /\ completed = [r \in Req |-> 0]
    /\ downloaded_files = [r \in Req |-> <<>>]
    /\ emitted = [r \in Req |-> <<>>]
    /\ result = [r \in Req |-> "pending"]
    /\ now = 0
    /\ start_time = [r \in Req |-> 0]
    /\ gen = [r \in Req |-> "idle"]
    /\ stream = [r \in Req |-> <<>>]
    /\ session_id = [r \in Req |-> NoSession]
    /\ download_sessions = <<>>
    /\ dl = [d \in Dl |-> NoDownload]
    /\ current_download_path = NoDownloadPath

\* A queue of one line: put blocks while a line waits.
QueueHasRoomForOne == Len(log_queue) < 1

\* queue.Queue() has no maxsize: put never blocks.
QueueHasRoom == TRUE

InitWith(pages) == InitOf(pages, SelectedTypeSets)

\* log_queue.put(line)
Put(r, line) ==
    /\ QueueHasRoom
    /\ log_queue' = Append(log_queue, line)
    /\ emitted' = [emitted EXCEPT ![r] = Append(@, line)]

\* The clock moves on.
Tick ==
    /\ now < MaxTime
    /\ now' = now + 1
    /\ UNCHANGED <<env, session_id, dl, disk, log_queue, pc, download_tasks, future,
                   response, attempts, referer, completed, downloaded_files,
                   emitted, result, start_time, gen, stream, download_sessions,
                   current_download_path>>

\* -------------------------------------------------------- process_company

\* The symbol every request of the model asks for: the company of page.
Symbol == "SYM"

\* f"{symbol}_{int(time.time())}"
SessionId(symbol, t) == <<symbol, t>>

\* /extract: generate() makes a fetcher and starts the extraction thread.
\* Requests are numbered in the order they arrive.
Extract(r) ==
    /\ pc[r] = "idle"
    /\ \A q \in Req : q < r => pc[q] # "idle"
    /\ pc' = [pc EXCEPT ![r] = "begin"]
    /\ gen' = [gen EXCEPT ![r] = "loop"]
    /\ session_id' = [session_id EXCEPT ![r] =
                        IF variant = "app" THEN SessionId(Symbol, now) ELSE @]
    /\ UNCHANGED <<env, dl, disk, log_queue, download_tasks, future,
                   response, attempts, referer, completed, downloaded_files,
                   emitted, result, now, start_time, stream, download_sessions,
                   current_download_path>>

\* self.downloaded_files = []; log_queue.put("STATUS|Fetching data ...")
Begin(r) ==
    /\ pc[r] = "begin"
    /\ downloaded_files' = [downloaded_files EXCEPT ![r] = <<>>]
    /\ Put(r, StatusFetching(r))
    /\ pc' = [pc EXCEPT ![r] = "fetch"]
    /\ UNCHANGED <<env, session_id, dl, disk, download_tasks, future, response,
                   attempts, referer, completed, result, now, start_time, gen,
                   stream, download_sessions, current_download_path>>

\* The except branch without its return.
AfterErrorNoReturn == "fetch"

\* return None in the except branch: the thread ends.
AfterError == "dead"

\* The value returned when the page fetch failed: None, [] in
\* cloud_ready_app.py.
ErrorReturn(v) == IF v = "app" THEN "None" ELSE "[]"

\* The page request or its parsing raises: ERROR, return.
FetchFailed(r) ==
    /\ pc[r] = "fetch"
    /\ Put(r, ErrorEvent(r))
    /\ pc' = [pc EXCEPT ![r] = AfterError]
    /\ result' = [result EXCEPT ![r] = ErrorReturn(variant)]
    /\ UNCHANGED <<env, session_id, dl, disk, download_tasks, future, response,
                   attempts, referer, completed, downloaded_files, now,
                   start_time, gen, stream, download_sessions,
                   current_download_path>>

\* The empty-plan test never taken.
PlanIsEmptyNever(tasks) == FALSE

\* total_files == 0
PlanIsEmpty(tasks) == Len(tasks) = 0

\* The page is fetched and parsed, the plan built, and the first line after
\* planning put: the "no files" STATUS, or TOTAL, start_time taken and every
\* task submitted to the pool.
FetchedAndPlanned(r) ==
    /\ pc[r] = "fetch"
    /\ LET tasks == PlanTasks(variant, page, start_year, end_year, selected_types, disk)
       IN /\ download_tasks' = [download_tasks EXCEPT ![r] = tasks]
          /\ IF PlanIsEmpty(tasks)
             THEN /\ Put(r, StatusNoFiles(r))
                  /\ pc' = [pc EXCEPT ![r] = "empty"]
                  /\ UNCHANGED <<future, response, attempts, referer, start_time>>
             ELSE /\ Put(r, TotalEvent(r, Len(tasks)))
                  /\ pc' = [pc EXCEPT ![r] = "dispatch"]
                  /\ start_time' = [start_time EXCEPT ![r] = now]
                  /\ future' = [future EXCEPT ![r] = [i \in 1..Len(tasks) |-> "queued"]]
                  /\ response' = [response EXCEPT ![r] = [i \in 1..Len(tasks) |-> NoResponse]]
                  /\ attempts' = [attempts EXCEPT ![r] = [i \in 1..Len(tasks) |-> 0]]
                  /\ referer' = [referer EXCEPT ![r] = [i \in 1..Len(tasks) |-> "unset"]]
    /\ UNCHANGED <<env, session_id, dl, disk, completed, downloaded_files, result, now,
                   gen, stream, download_sessions, current_download_path>>

\* The empty plan returning the archive root.
EmptyReturnRoot(v) == "company_root"

\* The value returned for an empty plan: None, [] in cloud_ready_app.py.
EmptyReturn(v) == IF v = "app" THEN "None" ELSE "[]"

\* log_queue.put("COMPLETE|0|0|"); return None
EmptyComplete(r) ==
    /\ pc[r] = "empty"
    /\ Put(r, EmptyCompleteEvent(variant, r))
    /\ pc' = [pc EXCEPT ![r] = "dead"]
    /\ result' = [result EXCEPT ![r] = EmptyReturn(variant)]
    /\ UNCHANGED <<env, session_id, dl, disk, download_tasks, future, response,
                   attempts, referer, completed, downloaded_files, now,
                   start_time, gen, stream, download_sessions,
                   current_download_path>>

\* The tasks a pool worker is running download_file for.
Running(r) == { i \in DOMAIN future[r] : future[r][i] = "running" }
Finished(r) == { i \in DOMAIN future[r] : future[r][i] \in {"ok", "failed"} }
Succeeded(r) == { i \in DOMAIN future[r] : future[r][i] = "ok" }

SCREENER_DOMAIN == "https://www.screener.in"

\* urlparse(urljoin(SCREENER_DOMAIN, url)).netloc: a relative target is on the
\* document source; the absolute targets of the model are, by their id, on
\* the hosts below.
Domain(href) ==
    IF ~href.abs THEN "www.screener.in"
    ELSE CASE href.id = 1 -> "www.bseindia.com"
           [] href.id = 2 -> "www.nseindia.com"
           [] href.id = 3 -> "www.example.com"
           [] href.id = 4 -> "nsearchives.nseindia.com"
           [] OTHER -> "www.screener.in"

\* needle in domain, on the hosts of the model.
Contains(domain, needle) ==
    CASE needle = "bseindia" -> domain = "www.bseindia.com"
      [] needle = "nseindia" -> domain \in {"www.nseindia.com", "nsearchives.nseindia.com"}
      [] OTHER -> FALSE

\* The Referer of every request set to the document source.
RefererAlwaysSource(domain) == SCREENER_DOMAIN

\* headers['Referer'], chosen by the host of the target.
Referer(domain) ==
    IF Contains(domain, "bseindia") THEN "https://www.bseindia.com/"
    ELSE IF Contains(domain, "nseindia") THEN "https://www.nseindia.com/"
    ELSE SCREENER_DOMAIN

\* A pool that starts a thread for every task.
WorkerFreeAlways(r) == TRUE

\* ThreadPoolExecutor(max_workers=MAX_WORKERS): a worker is idle.
WorkerFree(r) == Cardinality(Running(r)) < MAX_WORKERS

\* A pool worker takes the next submitted task, in submission order, and
\* calls download_file, which sends the request.
StartTask(r, i) ==
    /\ pc[r] = "dispatch"
    /\ i \in DOMAIN future[r]
    /\ future[r][i] = "queued"
    /\ \A j \in 1..(i - 1) : future[r][j] # "queued"
    /\ WorkerFree(r)
    /\ future' = [future EXCEPT ![r][i] = "running"]
    /\ attempts' = [attempts EXCEPT ![r][i] = @ + 1]
    /\ referer' = [referer EXCEPT ![r][i] = Referer(Domain(download_tasks[r][i].url))]
    /\ UNCHANGED <<env, session_id, dl, disk, log_queue, pc, download_tasks, response,
                   completed, downloaded_files, emitted, result, now, start_time,
                   gen, stream, download_sessions, current_download_path>>

\* What the download request can come to: raised says the request raised,
\* otherwise status and size are those of the response.
Responses ==
    { [raised |-> TRUE, status |-> 0, size |-> 0] }
    \cup { [raised |-> FALSE, status |-> s, size |-> n] :
             s \in {200, 404}, n \in {MinBody, MinBody + 1} }

\* cffi_requests.get(...) of task i returns or raises.
Respond(r, i, resp) ==
    /\ pc[r] = "dispatch"
    /\ i \in DOMAIN future[r]
    /\ future[r][i] = "running"
    /\ response[r][i] = NoResponse
    /\ response' = [response EXCEPT ![r][i] = resp]
    /\ UNCHANGED <<env, session_id, dl, disk, log_queue, pc, download_tasks, future,
                   attempts, referer, completed, downloaded_files, emitted,
                   result, now, start_time, gen, stream, download_sessions,
                   current_download_path>>

\* The test without the size of the body.
AcceptedAnySize(resp) == ~resp.raised /\ resp.status = 200

\* r.status_code == 200 and len(r.content) > 1000
Accepted(resp) == ~resp.raised /\ resp.status = 200 /\ resp.size > MinBody

\* An append that another worker's append overwrites.
AppendFileLost(files, path) == files

\* self.downloaded_files.append(str(save_path))
AppendFile(files, path) == Append(files, path)

\* A failed task handed back to the pool.
FailedFutureQueuedAgain == "queued"

\* return False: the future is done, its result False.
FailedFuture == "failed"

\* download_file from the response to its return, for task i of run r.
FinishTask(r, i) ==
    /\ pc[r] = "dispatch"
    /\ i \in DOMAIN future[r]
    /\ future[r][i] = "running"
    /\ response[r][i] # NoResponse
    /\ IF Accepted(response[r][i])
       THEN /\ disk' = disk \cup {download_tasks[r][i].path}
            /\ downloaded_files' =
                 [downloaded_files EXCEPT ![r] = AppendFile(@, download_tasks[r][i].path)]
            /\ future' = [future EXCEPT ![r][i] = "ok"]
       ELSE /\ future' = [future EXCEPT ![r][i] = FailedFuture]
            /\ UNCHANGED <<disk, downloaded_files>>
    /\ response' = [response EXCEPT ![r][i] = NoResponse]
    /\ UNCHANGED <<env, session_id, dl, log_queue, pc, download_tasks, attempts,
                   referer, completed, emitted, result, now, start_time, gen,
                   stream, download_sessions, current_download_path>>

\* as_completed counting the futures whose result is True only.
FutureReadySucceededOnly(r) == completed[r] < Cardinality(Succeeded(r))

\* as_completed yields a future that has finished and was not yielded yet.
FutureReady(r) == completed[r] < Cardinality(Finished(r))

\* The estimate without the tasks already done taken off.
EtaOfAll(elapsed, c, n) == (elapsed * n) \div c

\* avg_time = elapsed / completed; eta_seconds = int(avg_time * remaining),
\* with elapsed in whole ticks of the clock.
Eta(elapsed, c, n) == (elapsed * (n - c)) \div c

\* One round of the as_completed loop: completed += 1; PROGRESS.
Progress(r) ==
    /\ pc[r] = "dispatch"
    /\ FutureReady(r)
    /\ completed' = [completed EXCEPT ![r] = @ + 1]
    /\ Put(r, ProgressEvent(r, completed[r] + 1, Len(download_tasks[r]),
                            Eta(now - start_time[r], completed[r] + 1,
                                Len(download_tasks[r]))))
    /\ UNCHANGED <<env, session_id, dl, disk, pc, download_tasks, future, response,
                   attempts, referer, downloaded_files, result, now, start_time,
                   gen, stream, download_sessions, current_download_path>>

\* The loop left after its first round.
LoopExhaustedEarly(r) == completed[r] >= 1

\* as_completed has yielded every future and the pool has shut down.
LoopExhausted(r) ==
    /\ completed[r] = Len(download_tasks[r])
    /\ Finished(r) = DOMAIN future[r]

\* The count process_company reports in COMPLETE.
ReportedCount(r) == completed[r]

\* The value returned after dispatch: self.company_root,
\* self.downloaded_files in cloud_ready_app.py.
FinalReturn(v) == IF v = "app" THEN "company_root" ELSE "downloaded_files"

\* log_queue.put("COMPLETE|..."); return. In app.py the thread goes on to
\* register the session; in cloud_ready_app.py it ends.
Complete(r) ==
    /\ pc[r] = "dispatch"
    /\ LoopExhausted(r)
    /\ Put(r, CompleteEvent(r, ReportedCount(r), Len(download_tasks[r])))
    /\ pc' = [pc EXCEPT ![r] = IF variant = "app" THEN "returned" ELSE "dead"]
    /\ result' = [result EXCEPT ![r] = FinalReturn(variant)]
    /\ UNCHANGED <<env, session_id, dl, disk, download_tasks, future, response,
                   attempts, referer, completed, downloaded_files, now,
                   start_time, gen, stream, download_sessions,
                   current_download_path>>

\* An entry of download_sessions; by is the run that registered it (not part
\* of the entry).
Session(id, path, timestamp, by) ==
    [id |-> id, path |-> path, timestamp |-> timestamp, by |-> by]

\* The keys of download_sessions.
SessionIds(sessions) == { sessions[k].id : k \in DOMAIN sessions }

\* download_sessions[key] = entry: a key the dict has keeps its place.
DictSet(sessions, entry) ==
    IF entry.id \in SessionIds(sessions)
    THEN [k \in DOMAIN sessions |->
            IF sessions[k].id = entry.id THEN entry ELSE sessions[k]]
    ELSE Append(sessions, entry)

\* del download_sessions[key]
DictDel(sessions, key) == SelectSeq(sessions, LAMBDA s : s.id # key)

\* run_extraction: if company_root: download_sessions[session_id] = {...}
Register(r) ==
    /\ pc[r] = "returned"
    /\ result[r] = "company_root"
    /\ download_sessions' =
         DictSet(download_sessions, Session(session_id[r], result[r], now, r))
    /\ pc' = [pc EXCEPT ![r] = "dead"]
    /\ UNCHANGED <<env, session_id, dl, disk, log_queue, download_tasks, future,
                   response, attempts, referer, completed, downloaded_files,
                   emitted, result, now, start_time, gen, stream,
                   current_download_path>>

\* ---------------------------------------------------------------- generate

\* A thread never seen alive.
AliveNever(r) == FALSE

\* thread.is_alive()
Alive(r) == pc[r] \notin {"idle", "dead"}

\* What generate() yields for a line: app.py rewrites COMPLETE to carry the
\* caller's session id in place of the root.
Yielded(v, r, line) ==
    IF v = "app" /\ line.t = "COMPLETE"
    THEN [line EXCEPT !.root = "session_id"]
    ELSE line

\* log_queue.get() returns a line, which is yielded to the caller.
StreamGet(r) ==
    /\ gen[r] = "loop"
    /\ log_queue # <<>>
    /\ LET line == Head(log_queue)
       IN /\ stream' = [stream EXCEPT ![r] = Append(@, Yielded(variant, r, line))]
          /\ current_download_path' =
               IF variant = "cloud" /\ line.t = "COMPLETE" /\ line.root # "absent"
               THEN DownloadPath(line.root, line.by)
               ELSE current_download_path
    /\ log_queue' = Tail(log_queue)
    /\ UNCHANGED <<env, session_id, dl, disk, pc, download_tasks, future, response,
                   attempts, referer, completed, downloaded_files, emitted,
                   result, now, start_time, gen, download_sessions>>

\* while thread.is_alive() or not log_queue.empty(): the loop ends.
StreamEnd(r) ==
    /\ gen[r] = "loop"
    /\ ~Alive(r)
    /\ log_queue = <<>>
    /\ gen' = [gen EXCEPT ![r] = "done"]
    /\ UNCHANGED <<env, session_id, dl, disk, log_queue, pc, download_tasks, future,
                   response, attempts, referer, completed, downloaded_files,
                   emitted, result, now, start_time, stream, download_sessions,
                   current_download_path>>

\* The caller goes away while generate() is suspended at a yield: the
\* generator is closed and reads the queue no more.
Abandon(r) ==
    /\ gen[r] = "loop"
    /\ stream[r] # <<>>
    /\ gen' = [gen EXCEPT ![r] = "closed"]
    /\ UNCHANGED <<env, session_id, dl, disk, log_queue, pc, download_tasks, future,
                   response, attempts, referer, completed, downloaded_files,
                   emitted, result, now, start_time, stream, download_sessions,
                   current_download_path>>

\* ---------------------------------------------------------------- download

\* Everything but dl, download_sessions and the clock.
rest == <<env, session_id, disk, log_queue, pc, download_tasks, future, response,
          attempts, referer, completed, downloaded_files, emitted, result,
          start_time, gen, stream, current_download_path>>

SessionTtl == 300

\* The clock moves on by a second, or by the age at which a session is old.
\* The seconds are counted up to MaxTime after each such age.
Wait(d) ==
    /\ d \in {1, SessionTtl}
    /\ d = 1 => now % SessionTtl < MaxTime
    /\ d = SessionTtl => now < SessionTtl
    /\ now' = now + d
    /\ UNCHANGED <<rest, dl, download_sessions>>

\* Path(download_path).exists(), and rglob('*.pdf') finds a file: the root is
\* made by the first download that writes under it.
ArchiveExists == disk # {}

\* app.py /download to the end of the ZIP: 404 for no or an unknown session
\* and for a root with no file, 500 when building the ZIP raises. Requests
\* are numbered in the order they arrive.
DownloadZip(d, session, zipped) ==
    /\ variant = "app"
    /\ dl[d].at = "idle"
    /\ \A e \in Dl : e < d => dl[e].at # "idle"
    /\ LET found == { k \in DOMAIN download_sessions : download_sessions[k].id = session }
       IN dl' = [dl EXCEPT ![d] =
            IF session = NoSession \/ found = {} \/ ~ArchiveExists
            THEN Download("done", session, <<>>, 0, 404, 0)
            ELSE IF ~zipped
            THEN Download("done", session, <<>>, 0, 500, 0)
            ELSE Download("zipped", session, <<>>, 0, 0,
                          download_sessions[CHOOSE k \in found : TRUE].by)]
    /\ UNCHANGED <<rest, now, download_sessions>>

\* current_time - data['timestamp'] > 300
IsOld(current_time, timestamp) == current_time - timestamp > SessionTtl

\* current_time = time.time(); sessions_to_delete = [sid for ... if old]
DownloadListOld(d) ==
    /\ dl[d].at = "zipped"
    /\ LET old == SelectSeq(download_sessions, LAMBDA s : IsOld(now, s.timestamp))
       IN dl' = [dl EXCEPT ![d].at = "deleting",
                           ![d].todo = [k \in DOMAIN old |-> old[k].id]]
    /\ UNCHANGED <<rest, now, download_sessions>>

\* One round of: for sid in sessions_to_delete: del download_sessions[sid].
\* A key another request has deleted raises KeyError, which the handler
\* answers with 500.
DownloadDelete(d) ==
    /\ dl[d].at = "deleting"
    /\ dl[d].todo # <<>>
    /\ IF Head(dl[d].todo) \in SessionIds(download_sessions)
       THEN /\ download_sessions' = DictDel(download_sessions, Head(dl[d].todo))
            /\ dl' = [dl EXCEPT ![d].todo = Tail(@), ![d].deleted = @ + 1]
       ELSE /\ dl' = [dl EXCEPT ![d].at = "done", ![d].todo = <<>>, ![d].status = 500]
            /\ UNCHANGED download_sessions
    /\ UNCHANGED <<rest, now>>

\* return send_file(...)
DownloadSend(d) ==
    /\ dl[d].at = "deleting"
    /\ dl[d].todo = <<>>
    /\ dl' = [dl EXCEPT ![d].at = "done", ![d].status = 200]
    /\ UNCHANGED <<rest, now, download_sessions>>

\* cloud_ready_app.py /download: 404 while current_download_path is None or
\* its directory is missing, the archive of current_download_path otherwise.
DownloadCloud(d) ==
    /\ variant = "cloud"
    /\ dl[d].at = "idle"
    /\ \A e \in Dl : e < d => dl[e].at # "idle"
    /\ dl' = [dl EXCEPT ![d] =
         IF current_download_path = NoDownloadPath \/ ~ArchiveExists
         THEN Download("done", NoSession, <<>>, 0, 404, 0)
         ELSE Download("done", NoSession, <<>>, 0, 200, current_download_path.by)]
    /\ UNCHANGED <<rest, now, download_sessions>>

\* ----------------------------------------------------------- specifications

\* The pages of Spec: one with no task and one with one task.
RunPages ==
    { <<>>,
      << Item("other", TRUE, TRUE, <<W("Mar"), N(DefaultStart)>>, <<W("Transcript")>>,
              Href(TRUE, FALSE, 1, <<>>)) >> }

Init == InitWith(RunPages)

Next ==
    \/ \E r \in Req : Extract(r)
    \/ \E r \in Req : Begin(r)
    \/ \E r \in Req : FetchFailed(r)
    \/ \E r \in Req : FetchedAndPlanned(r)
    \/ \E r \in Req : EmptyComplete(r)
    \/ \E r \in Req : \E i \in DOMAIN future[r] : StartTask(r, i)
    \/ \E r \in Req : \E i \in DOMAIN future[r] : \E resp \in Responses : Respond(r, i, resp)
    \/ \E r \in Req : \E i \in DOMAIN future[r] : FinishTask(r, i)
    \/ \E r \in Req : Progress(r)
    \/ \E r \in Req : Complete(r)
    \/ \E r \in Req : Register(r)
    \/ \E r \in Req : StreamGet(r)
    \/ \E r \in Req : StreamEnd(r)

\* Requests that overlap, each with its caller reading the stream.
Spec == Init /\ [][Next]_vars

InitPlan == InitWith(Pages)

\* The first request to arrive.
First == CHOOSE r \in Req : \A q \in Req : r <= q

NextPlan ==
    \/ Extract(First)
    \/ Begin(First)
    \/ FetchFailed(First)
    \/ FetchedAndPlanned(First)
    \/ EmptyComplete(First)
    \/ \E i \in DOMAIN future[First] : StartTask(First, i)
    \/ \E i \in DOMAIN future[First] : \E resp \in Responses : Respond(First, i, resp)
    \/ \E i \in DOMAIN future[First] : FinishTask(First, i)
    \/ Progress(First)
    \/ Complete(First)
    \/ Register(First)

\* One run of process_company, over every page of the model.
SpecPlan == InitPlan /\ [][NextPlan]_vars

\* No other request is being served.
Alone(r) == \A q \in Req \ {r} : ~Alive(q)

NextRepeat ==
    \/ \E r \in Req : Alone(r) /\ Extract(r)
    \/ \E r \in Req : Alone(r) /\ Begin(r)
    \/ \E r \in Req : Alone(r) /\ FetchFailed(r)
    \/ \E r \in Req : Alone(r) /\ FetchedAndPlanned(r)
    \/ \E r \in Req : Alone(r) /\ EmptyComplete(r)
    \/ \E r \in Req : \E i \in DOMAIN future[r] : Alone(r) /\ StartTask(r, i)
    \/ \E r \in Req : \E i \in DOMAIN future[r] : \E resp \in Responses :
          Alone(r) /\ Respond(r, i, resp)
    \/ \E r \in Req : \E i \in DOMAIN future[r] : Alone(r) /\ FinishTask(r, i)
    \/ \E r \in Req : Alone(r) /\ Progress(r)
    \/ \E r \in Req : Alone(r) /\ Complete(r)
    \/ \E r \in Req : Alone(r) /\ Register(r)

\* The same request made again once the run before it has returned, over the
\* pages of Spec.
SpecRepeat == Init /\ [][NextRepeat]_vars

\* A page of k transcripts of k years, each under a target of its own: a plan
\* of k tasks.
PoolPage(k) ==
    [i \in 1..k |-> Item("other", TRUE, TRUE, <<W("Mar"), N(DefaultStart + i - 1)>>,
                         <<W("Transcript")>>, Href(TRUE, FALSE, i, <<>>))]

\* The plans of SpecPool: none, and one task more than the pool has workers.
InitPool == InitWith({ PoolPage(0), PoolPage(MaxPool) })

\* One run whose plan is longer than the pool is wide.
SpecPool == InitPool /\ [][NextPlan]_vars

InitTime == InitWith({ PoolPage(k) : k \in 0..MaxItems })

NextTime ==
    \/ Tick
    \/ Extract(First)
    \/ Begin(First)
    \/ FetchFailed(First)
    \/ FetchedAndPlanned(First)
    \/ EmptyComplete(First)
    \/ \E i \in DOMAIN future[First] : StartTask(First, i)
    \/ \E i \in DOMAIN future[First] : \E resp \in Responses : Respond(First, i, resp)
    \/ \E i \in DOMAIN future[First] : FinishTask(First, i)
    \/ Progress(First)
    \/ Complete(First)
    \/ Register(First)

\* One run while the clock moves.
SpecTime == InitTime /\ [][NextTime]_vars

\* The steps of request r's extraction thread and of its pool.
RunStep(r) ==
    \/ Begin(r)
    \/ FetchFailed(r)
    \/ FetchedAndPlanned(r)
    \/ EmptyComplete(r)
    \/ \E i \in DOMAIN future[r] : StartTask(r, i)
    \/ \E i \in DOMAIN future[r] : \E resp \in Responses : Respond(r, i, resp)
    \/ \E i \in DOMAIN future[r] : FinishTask(r, i)
    \/ Progress(r)
    \/ Complete(r)
    \/ Register(r)

NextAbandon ==
    \/ Extract(First)
    \/ Begin(First)
    \/ FetchFailed(First)
    \/ FetchedAndPlanned(First)
    \/ EmptyComplete(First)
    \/ \E i \in DOMAIN future[First] : StartTask(First, i)
    \/ \E i \in DOMAIN future[First] : \E resp \in Responses : Respond(First, i, resp)
    \/ \E i \in DOMAIN future[First] : FinishTask(First, i)
    \/ Progress(First)
    \/ Complete(First)
    \/ Register(First)
    \/ StreamGet(First)
    \/ StreamEnd(First)
    \/ Abandon(First)

\* One request whose caller may go away. The threads of the run are
\* scheduled, and every download request returns or raises (timeout=60): a
\* step of the run that stays possible is taken. Nothing is asked of the
\* caller.
SpecAbandon == InitTime /\ [][NextAbandon]_vars /\ WF_vars(RunStep(First))

\* The tokens the list entries of SpecMeta are written with: two months, the
\* later in the year and the earlier, and two years.
MetaTokens == { W("Mar"), W("Jan"), N(DefaultStart), N(DefaultStart + 1) }

\* Transcript anchors inside and outside an <li>, the text around them any
\* sequence of up to MaxText tokens, their own text with and without a year,
\* their target with a year, with a month, or with neither.
MetaItems ==
    { Item("other", TRUE, row, ctx, text, Href(TRUE, FALSE, 1, toks)) :
        row \in BOOLEAN,
        ctx \in SeqsUpTo(MetaTokens, MaxText),
        text \in { <<W("Transcript")>>, <<W("Transcript"), N(DefaultStart + 3)>> },
        toks \in { <<>>, <<N(DefaultStart + 2)>>, <<W("Jan")>> } }

InitMeta == InitWith({ <<it>> : it \in MetaItems })

\* One run over a page of one anchor, for every anchor of MetaItems.
SpecMeta == InitMeta /\ [][NextPlan]_vars

NextStream ==
    \/ Extract(First)
    \/ Begin(First)
    \/ FetchFailed(First)
    \/ FetchedAndPlanned(First)
    \/ EmptyComplete(First)
    \/ \E i \in DOMAIN future[First] : StartTask(First, i)
    \/ \E i \in DOMAIN future[First] : \E resp \in Responses : Respond(First, i, resp)
    \/ \E i \in DOMAIN future[First] : FinishTask(First, i)
    \/ Progress(First)
    \/ Complete(First)
    \/ Register(First)
    \/ StreamGet(First)
    \/ StreamEnd(First)

\* One request and its caller, who reads the stream to its end.
SpecStream == InitTime /\ [][NextStream]_vars

\* The session ids a /download request may carry: none, and those /extract
\* has made.
SessionArgs == {NoSession} \cup { session_id[r] : r \in Req }

NextSessions ==
    \/ \E d \in {1, SessionTtl} : Wait(d)
    \/ \E r \in Req : Alone(r) /\ Extract(r)
    \/ \E r \in Req : Alone(r) /\ Begin(r)
    \/ \E r \in Req : Alone(r) /\ FetchFailed(r)
    \/ \E r \in Req : Alone(r) /\ FetchedAndPlanned(r)
    \/ \E r \in Req : Alone(r) /\ EmptyComplete(r)
    \/ \E r \in Req : \E i \in DOMAIN future[r] : Alone(r) /\ StartTask(r, i)
    \/ \E r \in Req : \E i \in DOMAIN future[r] : \E resp \in Responses :
          Alone(r) /\ Respond(r, i, resp)
    \/ \E r \in Req : \E i \in DOMAIN future[r] : Alone(r) /\ FinishTask(r, i)
    \/ \E r \in Req : Alone(r) /\ Progress(r)
    \/ \E r \in Req : Alone(r) /\ Complete(r)
    \/ \E r \in Req : Alone(r) /\ Register(r)
    \/ \E d \in Dl : \E session \in SessionArgs : \E zipped \in BOOLEAN :
          DownloadZip(d, session, zipped)
    \/ \E d \in Dl : DownloadListOld(d)
    \/ \E d \in Dl : DownloadDelete(d)
    \/ \E d \in Dl : DownloadSend(d)

\* The server of app.py before its first request.
InitSessions ==
    /\ Init
    /\ variant = "app"

\* app.py: requests one after another while the clock moves, and /download
\* requests that overlap.
SpecSessions == InitSessions /\ [][NextSessions]_vars

\* download_type.split(','): every category, each category alone, two
\* together, and a value that names none.
DownloadTypes ==
    { {"all"}, {"annual_reports"}, {"transcript"}, {"ppt"}, {"ppt", "transcript"},
      {"concalls"} }

\* An annual report, a transcript and a presentation of the first year of
\* the range, under three targets.
TypeItems ==
    { Item("ar", TRUE, TRUE, <<N(DefaultStart)>>, <<W("Notes")>>, Href(FALSE, FALSE, 1, <<>>)),
      Item("other", TRUE, TRUE, <<W("Mar"), N(DefaultStart)>>, <<W("Transcript")>>,
           Href(TRUE, FALSE, 2, <<>>)),
      Item("other", TRUE, TRUE, <<W("Mar"), N(DefaultStart)>>, <<W("PPT")>>,
           Href(TRUE, FALSE, 3, <<>>)) }

InitTypes == InitOf(SeqsUpTo(TypeItems, MaxItems), DownloadTypes)

\* One run for every download_type of the model.
SpecTypes == InitTypes /\ [][NextPlan]_vars

NextServe ==
    \/ \E r \in Req : Alone(r) /\ Extract(r)
    \/ \E r \in Req : Alone(r) /\ Begin(r)
    \/ \E r \in Req : Alone(r) /\ FetchFailed(r)
    \/ \E r \in Req : Alone(r) /\ FetchedAndPlanned(r)
    \/ \E r \in Req : Alone(r) /\ EmptyComplete(r)
    \/ \E r \in Req : \E i \in DOMAIN future[r] : Alone(r) /\ StartTask(r, i)
    \/ \E r \in Req : \E i \in DOMAIN future[r] : \E resp \in Responses :
          Alone(r) /\ Respond(r, i, resp)
    \/ \E r \in Req : \E i \in DOMAIN future[r] : Alone(r) /\ FinishTask(r, i)
    \/ \E r \in Req : Alone(r) /\ Progress(r)
    \/ \E r \in Req : Alone(r) /\ Complete(r)
    \/ \E r \in Req : StreamGet(r)
    \/ \E r \in Req : StreamEnd(r)
    \/ \E d \in Dl : DownloadCloud(d)

\* The server of cloud_ready_app.py before its first request.
InitServe ==
    /\ Init
    /\ variant = "cloud"

\* cloud_ready_app.py: callers whose runs come one after another, each
\* reading its stream, and /download requests.
SpecServe == InitServe /\ [][NextServe]_vars

\* ------------------------------------------------------------------ claims

Last(q) == q[Len(q)]
Places(r, t) == { k \in DOMAIN emitted[r] : emitted[r][k].t = t }

\* The page fetch of run r failed.
FetchFailedRun(r) == Places(r, "ERROR") # {}
\* Run r fetched its page and built its plan.
HasPlanned(r) == Len(emitted[r]) >= 2 /\ ~FetchFailedRun(r)
\* process_company has returned.
Returned(r) == pc[r] \in {"returned", "dead"}

\* C1: no two tasks of a plan share a destination path.
C1_DestinationsUnique ==
    \A r \in Req : \A i, j \in DOMAIN download_tasks[r] :
        i # j => download_tasks[r][i].path # download_tasks[r][j].path

\* C2: the completed count of COMPLETE is the number of tasks whose
\* download_file returned success.
C2_CompleteCountsSuccesses ==
    \A r \in Req : \A k \in Places(r, "COMPLETE") :
        emitted[r][k].c = Cardinality(Succeeded(r))

\* C3: a caller's stream, once ended, holds a terminal event (ERROR or
\* COMPLETE), and that event is its last.
C3_StreamEndsWithTerminal ==
    \A r \in Req : gen[r] = "done" =>
        /\ stream[r] # <<>>
        /\ Last(stream[r]).t \in {"ERROR", "COMPLETE"}
        /\ \A k \in 1..(Len(stream[r]) - 1) : stream[r][k].t \notin {"ERROR", "COMPLETE"}

\* C4: every event delivered on a caller's stream was produced by that
\* caller's own run.
C4_StreamOwnEventsOnly ==
    \A r \in Req : \A k \in DOMAIN stream[r] : stream[r][k].by = r

\* C5: in the events of one run the completed field of PROGRESS never
\* decreases, no PROGRESS follows COMPLETE, and COMPLETE is emitted once,
\* by every run that planned and returned, only with every task finished.
C5_ProgressThenOneComplete ==
    \A r \in Req :
        /\ \A j, k \in Places(r, "PROGRESS") : j < k => emitted[r][j].c <= emitted[r][k].c
        /\ \A j \in Places(r, "COMPLETE") : \A k \in Places(r, "PROGRESS") : k < j
        /\ Cardinality(Places(r, "COMPLETE")) <= 1
        /\ (HasPlanned(r) /\ Returned(r)) => Cardinality(Places(r, "COMPLETE")) = 1
        /\ Places(r, "COMPLETE") # {} =>
             /\ Finished(r) = DOMAIN future[r]
             /\ Cardinality(Places(r, "PROGRESS")) = Len(download_tasks[r])

\* A run of two tasks has emitted its COMPLETE after two PROGRESS events.
C5_Witness ==
    \E r \in Req :
        /\ Len(download_tasks[r]) >= 2
        /\ Places(r, "COMPLETE") # {}
        /\ Cardinality(Places(r, "PROGRESS")) >= 2

\* The year the pass that planned a task reads from page item k.
ItemYear(cat, k) ==
    IF cat = "Annual Report" THEN FirstYear(RowText(page[k]))
    ELSE extract_metadata(variant, page[k]).year

\* C6: every task whose year is determinable has start_year <= year <=
\* end_year, in both passes: no task comes from an entry whose year is
\* outside the range.
C6_YearsWithinRange ==
    \A r \in Req : \A i \in DOMAIN download_tasks[r] :
        LET t == download_tasks[r][i]
        IN /\ t.year # Unknown_Year =>
                (start_year <= t.year.n /\ t.year.n <= end_year)
           /\ ItemYear(t.cat, t.src) # Unknown_Year =>
                (start_year <= ItemYear(t.cat, t.src).n /\ ItemYear(t.cat, t.src).n <= end_year)

\* A plan holds a task of the range's first year while the page holds an
\* entry with a link whose year is outside the range.
C6_Witness ==
    \E r \in Req :
        /\ HasPlanned(r)
        /\ \E i \in DOMAIN download_tasks[r] : download_tasks[r][i].year.n = start_year
        /\ \E k \in DOMAIN page :
              /\ page[k].link
              /\ FirstYear(RowText(page[k])) # Unknown_Year
              /\ \/ FirstYear(RowText(page[k])).n > end_year
                 \/ FirstYear(RowText(page[k])).n < start_year

\* C7: no task with an undeterminable year appears in a plan.
C7_NoUnknownYearTask ==
    \A r \in Req : \A i \in DOMAIN download_tasks[r] :
        download_tasks[r][i].year # Unknown_Year

\* C8: two plans over the same page, company and range are the same plan,
\* whatever earlier runs left on disk.
C8_PlanningIdempotent ==
    \A q, r \in Req : (HasPlanned(q) /\ HasPlanned(r)) => download_tasks[q] = download_tasks[r]

\* C9: a run whose plan is empty emits the 'no files' STATUS and then
\* COMPLETE with counts 0 and 0, no ERROR, TOTAL or PROGRESS, and starts no
\* download.
C9_EmptyPlan ==
    \A r \in Req : (HasPlanned(r) /\ download_tasks[r] = <<>>) =>
        /\ emitted[r][2] = StatusNoFiles(r)
        /\ Returned(r) => Len(emitted[r]) = 3
        /\ Len(emitted[r]) >= 3 =>
             /\ Len(emitted[r]) = 3
             /\ emitted[r][3].t = "COMPLETE" /\ emitted[r][3].c = 0 /\ emitted[r][3].n = 0
        /\ Places(r, "ERROR") \cup Places(r, "TOTAL") \cup Places(r, "PROGRESS") = {}
        /\ future[r] = <<>>
        /\ downloaded_files[r] = <<>>

\* A run over a page that has entries, all of them filtered out, has returned.
C9_Witness ==
    \E r \in Req :
        /\ HasPlanned(r) /\ download_tasks[r] = <<>> /\ Returned(r)
        /\ Len(page) > 0

\* C10: a run whose page fetch failed emits ERROR as its last event: no
\* TOTAL, PROGRESS or COMPLETE, no task planned, no download started.
C10_FetchFailure ==
    \A r \in Req : FetchFailedRun(r) =>
        /\ emitted[r] = <<StatusFetching(r), ErrorEvent(r)>>
        /\ pc[r] = "dead"
        /\ download_tasks[r] = <<>>
        /\ future[r] = <<>>
        /\ downloaded_files[r] = <<>>

\* The fetch of a page that holds plannable entries has failed.
C10_Witness ==
    \E r \in Req :
        /\ FetchFailedRun(r)
        /\ PlanTasks(variant, page, start_year, end_year, selected_types, disk) # <<>>

\* C11: at most MAX_WORKERS downloads of a run are in flight at any moment,
\* and none is in flight before the plan is built and TOTAL put, or after
\* COMPLETE is put.
C11_AtMostMaxWorkersInFlight ==
    \A r \in Req :
        /\ Cardinality(Running(r)) <= MAX_WORKERS
        /\ Running(r) # {} =>
             /\ HasPlanned(r)
             /\ Places(r, "TOTAL") # {}
             /\ Places(r, "COMPLETE") = {}

\* The pool is full and a task waits for a worker.
C11_Witness ==
    \E r \in Req :
        /\ Cardinality(Running(r)) = MAX_WORKERS
        /\ \E i \in DOMAIN future[r] : future[r][i] = "queued"

\* C12: no task is retried: download_file is called at most once for a task,
\* and exactly once for every task of the plan by the time COMPLETE is put.
C12_EachTaskAttemptedOnce ==
    \A r \in Req :
        /\ Places(r, "TOTAL") # {} => DOMAIN attempts[r] = DOMAIN download_tasks[r]
        /\ \A i \in DOMAIN attempts[r] :
             /\ attempts[r][i] <= 1
             /\ future[r][i] # "queued" => attempts[r][i] = 1
             /\ Places(r, "COMPLETE") # {} => attempts[r][i] = 1

\* A run has put COMPLETE after a download of its plan failed.
C12_Witness ==
    \E r \in Req :
        /\ Places(r, "COMPLETE") # {}
        /\ \E i \in DOMAIN future[r] : future[r][i] = "failed" /\ attempts[r][i] = 1

\* The dispatcher or a pool worker of run r can take a step.
RunCanStep(r) ==
    \/ Running(r) # {}
    \/ \E i \in DOMAIN future[r] : future[r][i] = "queued" /\ WorkerFree(r)
    \/ FutureReady(r)
    \/ LoopExhausted(r)

\* C13: a failed download does not halt the run: no ERROR is put, the
\* dispatcher is never left without a step to take, and the run returns
\* with every task attempted and one COMPLETE whose total is the number of
\* planned tasks.
C13_FailedDownloadDoesNotHaltRun ==
    \A r \in Req : (\E i \in DOMAIN future[r] : future[r][i] = "failed") =>
        /\ Places(r, "ERROR") = {}
        /\ pc[r] = "dispatch" => RunCanStep(r)
        /\ Returned(r) =>
             /\ \A i \in DOMAIN future[r] : attempts[r][i] = 1 /\ future[r][i] \in {"ok", "failed"}
             /\ Cardinality(Places(r, "COMPLETE")) = 1
             /\ Last(emitted[r]).t = "COMPLETE"
             /\ Last(emitted[r]).n = Len(download_tasks[r])

\* A run has returned with one download failed and another succeeded.
C13_Witness ==
    \E r \in Req :
        /\ Returned(r)
        /\ \E i, j \in DOMAIN future[r] : future[r][i] = "failed" /\ future[r][j] = "ok"

\* The elements of a sequence.
Range(q) == { q[k] : k \in DOMAIN q }

EarlierOfSameName(r, i) ==
    { j \in 1..(i - 1) :
        /\ download_tasks[r][j].cat = download_tasks[r][i].cat
        /\ download_tasks[r][j].year = download_tasks[r][i].year
        /\ download_tasks[r][j].month = download_tasks[r][i].month }

\* C15: of the concall tasks of a plan with one category, year and month,
\* the first keeps the unsuffixed name, the second is given _1, the third _2,
\* and so on.
C15_CollisionsSuffixedWithinPlan ==
    \A r \in Req : \A i \in DOMAIN download_tasks[r] :
        download_tasks[r][i].cat \in {"Transcript", "PPT"} =>
            download_tasks[r][i].path.sfx = Cardinality(EarlierOfSameName(r, i))

\* Task i of run r is a transcript or a presentation.
IsConcall(r, i) == download_tasks[r][i].cat \in {"Transcript", "PPT"}

\* C16: no two transcript or presentation tasks of a plan have the same
\* source URL, and an anchor whose URL an earlier anchor's task has is given
\* no task, whatever its text.
C16_ConcallUrlsUnique ==
    \A r \in Req :
        /\ \A i, j \in DOMAIN download_tasks[r] :
             (i # j /\ IsConcall(r, i) /\ IsConcall(r, j)) =>
                 download_tasks[r][i].url # download_tasks[r][j].url
        /\ \A i \in DOMAIN download_tasks[r] : \A k \in DOMAIN page :
             (IsConcall(r, i) /\ download_tasks[r][i].src < k
                 /\ page[k].href = download_tasks[r][i].url) =>
                 ~\E j \in DOMAIN download_tasks[r] :
                     IsConcall(r, j) /\ download_tasks[r][j].src = k

\* A plan was built from a page that holds a transcript anchor and, after
\* it, a presentation anchor with the same URL: the transcript alone is
\* planned.
C16_Witness ==
    \E r \in Req : \E k1, k2 \in DOMAIN page :
        /\ k1 < k2
        /\ page[k1].href = page[k2].href
        /\ page[k1].text # page[k2].text
        /\ \E i \in DOMAIN download_tasks[r] :
             download_tasks[r][i].src = k1 /\ download_tasks[r][i].cat = "Transcript"
        /\ ~\E j \in DOMAIN download_tasks[r] : download_tasks[r][j].src = k2

\* Run r has put its terminal line.
TerminalEmitted(r) == Places(r, "ERROR") # {} \/ Places(r, "COMPLETE") # {}

\* C17: once the caller has stopped reading the stream, the run still comes
\* to its end: the thread ends with its terminal line put, and a run that
\* planned tasks has attempted every one of them and put COMPLETE.
C17_AbandonedRunStillCompletes ==
    \A r \in Req :
        (gen[r] = "closed") ~>
            /\ ~Alive(r)
            /\ TerminalEmitted(r)
            /\ HasPlanned(r) =>
                 /\ Places(r, "COMPLETE") # {}
                 /\ \A i \in DOMAIN download_tasks[r] : attempts[r][i] = 1

\* The caller went away before the first PROGRESS of a run of two tasks was
\* put, and the run has put the rest of its lines, COMPLETE last, on the
\* queue that nobody reads.
C17_Witness ==
    \E r \in Req :
        /\ gen[r] = "closed"
        /\ Places(r, "PROGRESS") # {}
        /\ \A k \in DOMAIN stream[r] : stream[r][k].t \notin {"PROGRESS", "COMPLETE"}
        /\ log_queue # <<>>
        /\ Last(log_queue).t = "COMPLETE"
        /\ Len(log_queue) > Len(download_tasks[r])

\* Run r has returned from a dispatch that ran to completion over a
\* non-empty plan.
DispatchCompleted(r) == Returned(r) /\ HasPlanned(r) /\ download_tasks[r] # <<>>
\* Run r has returned after a failed page fetch or with an empty plan.
ReturnedEarly(r) ==
    Returned(r) /\ (FetchFailedRun(r) \/ (HasPlanned(r) /\ download_tasks[r] = <<>>))

\* C18, as claimed: process_company returns the archive root exactly when the
\* plan was non-empty and dispatch ran to completion, and None when the page
\* fetch failed or the plan was empty.
C18_RootOrNone ==
    \A r \in Req :
        /\ result[r] = "company_root" <=> DispatchCompleted(r)
        /\ ReturnedEarly(r) => result[r] = "None"

\* C18, amended: that holds of app.py; cloud_ready_app.py returns
\* downloaded_files after a completed dispatch and [] after a failed fetch or
\* an empty plan, and in both revisions the root is carried by the COMPLETE
\* line of a completed dispatch and by no other line.
C18_ReturnValueByRevision ==
    \A r \in Req :
        /\ variant = "app" =>
             /\ result[r] = "company_root" <=> DispatchCompleted(r)
             /\ result[r] = "None" <=> ReturnedEarly(r)
        /\ variant = "cloud" =>
             /\ result[r] = "downloaded_files" <=> DispatchCompleted(r)
             /\ result[r] = "[]" <=> ReturnedEarly(r)
        /\ (\E k \in DOMAIN emitted[r] : emitted[r][k].root = "company_root")
               <=> DispatchCompleted(r)

\* app.py has returned the root of a run none of whose downloads succeeded.
C18_Witness ==
    \E r \in Req :
        /\ variant = "app"
        /\ result[r] = "company_root"
        /\ DispatchCompleted(r)
        /\ Succeeded(r) = {}

\* C19: a run of n >= 1 tasks puts one PROGRESS per finished task, n in all
\* by the time COMPLETE is put; the k-th carries completed = k and total = n,
\* and an eta_seconds that is not negative and is
\* (elapsed / completed) * (total - completed), cut to a whole number, for an
\* elapsed time the clock has shown since start_time; the PROGRESS with
\* completed = total carries eta_seconds = 0.
C19_ProgressCountsAndEta ==
    \A r \in Req :
        LET n == Len(download_tasks[r])
            P == Places(r, "PROGRESS")
        IN /\ Cardinality(P) = completed[r]
           /\ Cardinality(P) <= Cardinality(Finished(r))
           /\ Places(r, "COMPLETE") # {} => Cardinality(P) = n
           /\ \A k \in P :
                LET e == emitted[r][k]
                IN /\ e.c = Cardinality({ j \in P : j <= k })
                   /\ e.n = n
                   /\ e.eta >= 0
                   /\ \E elapsed \in 0..(now - start_time[r]) :
                        e.eta = (elapsed * (e.n - e.c)) \div e.c
                   /\ e.c = e.n => e.eta = 0

\* A run of two tasks has put COMPLETE after time has passed: its first
\* PROGRESS estimates time left and its last none.
C19_Witness ==
    \E r \in Req :
        /\ Places(r, "COMPLETE") # {}
        /\ \E k1, k2 \in Places(r, "PROGRESS") :
             /\ k1 < k2
             /\ emitted[r][k1].eta > 0
             /\ emitted[r][k2].eta = 0
             /\ emitted[r][k2].c = emitted[r][k2].n
        /\ now > start_time[r]

\* The kinds of the lines run r has put, in order.
Kinds(r) == [k \in DOMAIN emitted[r] |-> emitted[r][k].t]
IsPrefix(p, q) == Len(p) <= Len(q) /\ \A k \in DOMAIN p : p[k] = q[k]
\* The lines of a run whose page fetch failed, of a run with an empty plan,
\* and of a run of n tasks.
ErrorRunKinds == <<"STATUS", "ERROR">>
EmptyRunKinds == <<"STATUS", "STATUS", "COMPLETE">>
FullRunKinds(n) == <<"STATUS", "TOTAL">> \o [k \in 1..n |-> "PROGRESS"] \o <<"COMPLETE">>

\* C20: the lines of a run come in the order of the run's state machine:
\* STATUS first; then ERROR and nothing more, or, for an empty plan, STATUS
\* and COMPLETE and nothing more, or, for a plan of n tasks, one TOTAL with
\* n, the PROGRESS lines, COMPLETE and nothing more. A run that has returned
\* has put the whole of its sequence.
C20_EventOrder ==
    \A r \in Req :
        LET n == Len(download_tasks[r])
            whole == IF FetchFailedRun(r) THEN ErrorRunKinds
                     ELSE IF n = 0 THEN EmptyRunKinds
                     ELSE FullRunKinds(n)
        IN /\ IsPrefix(Kinds(r), whole)
           /\ \A k \in Places(r, "TOTAL") : emitted[r][k].n = n /\ n >= 1
           /\ Returned(r) => Kinds(r) = whole

\* A run of two tasks has put its whole sequence.
C20_Witness ==
    \E r \in Req :
        /\ Returned(r)
        /\ Kinds(r) = <<"STATUS", "TOTAL", "PROGRESS", "PROGRESS", "COMPLETE">>

\* The first token of the text, in the order of the text, that is a month
\* abbreviation, title-cased; "General" when there is none.
RECURSIVE FirstMonthInText(_, _)
FirstMonthInText(text, i) ==
    IF i > Len(text) THEN "General"
    ELSE IF \E k \in DOMAIN month_list : month_list[k] = Lower(text[i].w)
         THEN Capitalize(Lower(text[i].w))
         ELSE FirstMonthInText(text, i + 1)

\* C21: the month of a task is the month abbreviation that occurs first, in
\* the order of the text, in the combined text of its anchor, title-cased,
\* and "General" when none occurs.
C21_MonthFirstInDocumentOrder ==
    \A r \in Req : \A i \in DOMAIN download_tasks[r] :
        download_tasks[r][i].month =
            FirstMonthInText(CombinedText(variant, page[download_tasks[r][i].src]), 1)

\* C22: the year of a task is the first 20xx token of the text of its
\* anchor's <li> (of the anchor itself when it has none) followed by the link
\* target, and the unknown marker when there is none.
C22_YearFromTextThenTarget ==
    \A r \in Req : \A i \in DOMAIN download_tasks[r] :
        LET it == page[download_tasks[r][i].src]
        IN download_tasks[r][i].year = FirstYear(SearchText(it) \o it.href.toks)

\* The Referer headers run r has sent.
ReferersSent(r) == { referer[r][i] : i \in { j \in DOMAIN referer[r] : attempts[r][j] >= 1 } }

\* C23, as claimed: three hosts have a referrer of their own; a run that has
\* sent a request to every host of the model has used three referrers other
\* than the document source.
C23_ThreeHostReferrers ==
    \A r \in Req :
        (Len(download_tasks[r]) >= MaxPool /\ \A i \in DOMAIN attempts[r] : attempts[r][i] >= 1) =>
            Cardinality(ReferersSent(r) \ {"https://www.screener.in"}) = 3

\* C23, amended: two hosts have a referrer of their own, a target whose host
\* holds "bseindia" being sent https://www.bseindia.com/ and one whose host
\* holds "nseindia" https://www.nseindia.com/; every other target is sent the
\* document source, https://www.screener.in.
C23_RefererByHost ==
    \A r \in Req : \A i \in DOMAIN referer[r] :
        LET domain == Domain(download_tasks[r][i].url)
        IN IF attempts[r][i] = 0 THEN referer[r][i] = "unset"
           ELSE referer[r][i] =
                  CASE domain = "www.bseindia.com" -> "https://www.bseindia.com/"
                    [] domain \in {"www.nseindia.com", "nsearchives.nseindia.com"} ->
                         "https://www.nseindia.com/"
                    [] OTHER -> "https://www.screener.in"

\* A run has sent requests to a BSE host, to two NSE hosts and to another
\* host, with the three referrers.
C23_Witness ==
    \E r \in Req :
        /\ ReferersSent(r) = { "https://www.bseindia.com/", "https://www.nseindia.com/",
                               "https://www.screener.in" }
        /\ \E i, j \in DOMAIN referer[r] :
             /\ i # j
             /\ referer[r][i] = "https://www.nseindia.com/"
             /\ referer[r][j] = "https://www.nseindia.com/"

\* C24: in app.py, once a caller has been sent the COMPLETE of a run with a
\* non-empty plan, the session id that COMPLETE carries, the caller's own, is
\* a key of download_sessions.
C24_SessionRegisteredBeforeComplete ==
    \A r \in Req :
        (variant = "app" /\ \E k \in DOMAIN stream[r] :
                               stream[r][k].t = "COMPLETE" /\ stream[r][k].n > 0) =>
            session_id[r] \in SessionIds(download_sessions)

\* C25: in app.py no two /extract requests are given the same session id,
\* and every entry of download_sessions is under the session id of the run
\* that registered it and of no other request.
C25_SessionIdsDistinct ==
    \A r, q \in Req :
        (r # q /\ session_id[r] # NoSession /\ session_id[q] # NoSession) =>
            /\ session_id[r] # session_id[q]
            /\ \A k \in DOMAIN download_sessions :
                 download_sessions[k].by = r => download_sessions[k].id # session_id[q]

\* What the caller of run r is sent for the lines the run has put: the
\* lines, COMPLETE in app.py with the session id in place of the root.
Sent(r) == [k \in DOMAIN emitted[r] |->
              IF variant = "app" /\ emitted[r][k].t = "COMPLETE"
              THEN [emitted[r][k] EXCEPT !.root = "session_id"]
              ELSE emitted[r][k]]

\* C26: with one run active, the caller has been sent the first lines the
\* run has put, each once and in the order they were put, the others wait
\* on the queue in that order, and the stream ends only when the thread has
\* ended and the queue is empty, every line of the run delivered.
C26_SingleRunStreamComplete ==
    \A r \in Req : gen[r] # "idle" =>
        /\ Len(stream[r]) <= Len(emitted[r])
        /\ stream[r] = SubSeq(Sent(r), 1, Len(stream[r]))
        /\ log_queue = SubSeq(emitted[r], Len(stream[r]) + 1, Len(emitted[r]))
        /\ gen[r] = "done" =>
             /\ pc[r] = "dead"
             /\ log_queue = <<>>
             /\ stream[r] = Sent(r)
             /\ Last(stream[r]).t \in {"ERROR", "COMPLETE"}

\* The stream of a run of two tasks has ended with its five lines delivered.
C26_Witness ==
    \E r \in Req :
        /\ gen[r] = "done"
        /\ Len(stream[r]) = 5
        /\ Len(download_tasks[r]) = 2

\* The page items a plan made for the selection sel has a task for.
PlannedItems(sel) ==
    LET tasks == PlanTasks(variant, page, start_year, end_year, sel, {})
    IN { tasks[i].src : i \in DOMAIN tasks }

\* C27: in app.py a plan holds Annual Report tasks only when 'all' or
\* 'annual_reports' is selected, Transcript tasks only when 'all' or
\* 'transcript' is, PPT tasks only when 'all' or 'ppt' is; and with 'all'
\* every item planned for a category selected alone is planned.
C27_PlanFollowsDownloadType ==
    \A r \in Req : variant = "app" =>
        /\ \A i \in DOMAIN download_tasks[r] :
             LET cat == download_tasks[r][i].cat
             IN /\ cat \in {"Annual Report", "Transcript", "PPT"}
                /\ cat = "Annual Report" =>
                     ("all" \in selected_types \/ "annual_reports" \in selected_types)
                /\ cat = "Transcript" =>
                     ("all" \in selected_types \/ "transcript" \in selected_types)
                /\ cat = "PPT" =>
                     ("all" \in selected_types \/ "ppt" \in selected_types)
        /\ (HasPlanned(r) /\ "all" \in selected_types) =>
             \A sel \in { {"annual_reports"}, {"transcript"}, {"ppt"} } :
                 PlannedItems(sel) \subseteq { download_tasks[r][i].src : i \in DOMAIN download_tasks[r] }

\* app.py has planned, for 'ppt,transcript', the transcript of a page that
\* also lists an annual report, and not the annual report.
C27_Witness ==
    \E r \in Req :
        /\ variant = "app"
        /\ selected_types = {"ppt", "transcript"}
        /\ \E k \in DOMAIN page : page[k].sect = "ar"
        /\ Len(download_tasks[r]) = 1
        /\ download_tasks[r][1].cat = "Transcript"

\* How many times x occurs in the sequence q.
Count(q, x) == Cardinality({ k \in DOMAIN q : q[k] = x })

\* C28: downloaded_files of a run holds one entry for every task whose
\* download has succeeded, the task's destination path, and nothing else:
\* so at the run's end, and at every moment before it.
C28_DownloadedFilesAreSuccesses ==
    \A r \in Req :
        /\ Len(downloaded_files[r]) = Cardinality(Succeeded(r))
        /\ \A k \in DOMAIN downloaded_files[r] :
             Count(downloaded_files[r], downloaded_files[r][k]) =
                 Cardinality({ i \in Succeeded(r) :
                                 download_tasks[r][i].path = downloaded_files[r][k] })
        /\ \A i \in Succeeded(r) : download_tasks[r][i].path \in Range(downloaded_files[r])

\* A run of two tasks has returned with one download succeeded, whose path
\* is the one entry of downloaded_files, and one failed.
C28_Witness ==
    \E r \in Req : \E i, j \in DOMAIN future[r] :
        /\ Returned(r)
        /\ future[r][i] = "ok"
        /\ future[r][j] = "failed"
        /\ downloaded_files[r] = <<download_tasks[r][i].path>>

\* Run r has put a COMPLETE that carries the archive root.
PutRoot(r) == \E k \in Places(r, "COMPLETE") : emitted[r][k].root = "company_root"

\* C29: in cloud_ready_app.py, what /download serves a caller whose stream
\* has ended on the COMPLETE of its own run, with a root, is the archive of
\* that run: current_download_path is the path that run's COMPLETE carried.
C29_DownloadServesCallersRun ==
    \A r \in Req :
        (variant = "cloud" /\ gen[r] = "done" /\ PutRoot(r)) =>
            /\ current_download_path # NoDownloadPath
            /\ current_download_path.by = r

\* C30: in app.py a /download that was answered 404 or 500 has deleted no
\* session: download_sessions is changed only by the cleanup of a /download
\* that is answered with the ZIP.
C30_FailedDownloadDeletesNothing ==
    \A d \in Dl : dl[d].status \in {404, 500} => dl[d].deleted = 0
====
